---- MODULE Spec2Model ----
(***************************************************************************)
(* A model of the ride-pooling environment of NeurADP-for-Ride-Pooling:    *)
(* the feasibility validator (NYEnvironment.has_valid_path), the motion    *)
(* simulator (Environment.simulate_motion, _move_agent), the rebalancing   *)
(* solver (Environment._get_rebalance_targets), the rolling request        *)
(* history and the epoch loop of main.run_epoch.                           *)
(*                                                                         *)
(* Times are integers (the source uses floats holding whole seconds).      *)
(* Python's 0-based indices are kept for request_index and node_idx;       *)
(* sequences here are 1-based, so element i of a Python list is            *)
(* element i + 1 of the sequence that models it.                           *)
(***************************************************************************)
EXTENDS Integers, Sequences, FiniteSets, TLC

VARIABLES
    agents,                  \* main.run_epoch: agents, a list of LearningAgent
    current_time,            \* NYEnvironment.current_time
    recent_request_history,  \* Environment.recent_request_history (a deque)
    pc,                      \* the position of the driver that calls the environment
    epoch,                   \* the number of request batches drawn so far
    current_requests,        \* main.run_epoch: current_requests
    final_actions,           \* main.run_epoch: final_actions
    agents_to_rebalance,     \* simulate_motion: agents_to_rebalance
    vlog,                    \* one record per has_valid_path call (history variable)
    rb,                      \* the last _get_rebalance_targets call (history variable)
    appended,                \* every request ever handed to update_recent_requests
    stepped,                 \* the agents as the first stepping pass of simulate_motion left them
    mlog,                    \* one record per _move_agent call made on its own (history variable)
    gen,                     \* get_request_batch: the generator's frame (file, locals, batches yielded)
    scored_actions           \* the last get_value call: its arguments and its result

vars == <<agents, current_time, recent_request_history, pc, epoch, current_requests,
          final_actions, agents_to_rebalance, vlog, rb, appended, stepped, mlog, gen,
          scored_actions>>

(***************************************************************************)
(* Bounds of the model and constants of the program.                       *)
(***************************************************************************)
\* longest visit order given to the validator
MaxNodes == 2
\* largest number of idle vehicles handed to the rebalancing solver
MaxIdle == 3
\* most request batches drawn in one run
MaxEpochs == 2

\* Environment.REQUEST_HISTORY_SIZE is 500 in the source; scaled down so that
\* eviction from the deque is reached
REQUEST_HISTORY_SIZE == 3
\* NYEnvironment.EPOCH_LENGTH
EPOCH_LENGTH == 60
\* NYEnvironment.__init__(MAX_CAPACITY): a constructor parameter (default 10)
MAX_CAPACITY == 2
\* main: NUM_AGENTS is 1000 in the source; scaled down
NUM_AGENTS == 2
\* NYEnvironment.NUM_LOCATIONS is 4461 in the source; scaled down
NUM_LOCATIONS == 3

Locations == 0 .. (NUM_LOCATIONS - 1)

\* what Path.get_next_location answers on an empty visit order (no location)
NoLocation == -1

(***************************************************************************)
(* The travel oracle: the two tables read from zone_traveltime.csv and     *)
(* zone_path.csv.  The instance is a road 0 - 1 - 2 with hops of 20 and    *)
(* 30 seconds; shortest_path[s][d] is the next hop from s towards d.       *)
(***************************************************************************)
travel_time ==
    [s \in Locations |-> [d \in Locations |->
        IF s = d THEN 0
        ELSE IF {s, d} = {0, 1} THEN 20
        ELSE IF {s, d} = {1, 2} THEN 30
        ELSE 50]]

shortest_path ==
    [s \in Locations |-> [d \in Locations |->
        IF s = d THEN s
        ELSE IF {s, d} = {0, 2} THEN 1
        ELSE d]]

get_travel_time(source, destination) == travel_time[source][destination]

get_next_location(source, destination) == shortest_path[source][destination]

get_epoch_length == EPOCH_LENGTH

(***************************************************************************)
(* Requests, path nodes and paths (Request.py and Path.py).                *)
(***************************************************************************)
\* a Request object: id stands for the object's identity (two requests of a
\* batch may agree in every field), the deadlines are fixed at creation
Request(id, source, destination, creation, pickup_deadline, dropoff_deadline) ==
    [id |-> id, pickup |-> source, dropoff |-> destination, creation_time |-> creation,
     pickup_deadline |-> pickup_deadline, dropoff_deadline |-> dropoff_deadline]

RequestInfo(request, assigned) == [request |-> request, assigned |-> assigned]

PathNode(is_dropoff, request_index) ==
    [is_dropoff |-> is_dropoff, request_index |-> request_index,
     expected_visit_time |-> 0, current_capacity |-> 0]

EmptyPath ==
    [request_order |-> <<>>, requests |-> <<>>, current_capacity |-> 0,
     total_delay |-> 0, complete |-> TRUE]

\* Path.is_complete: a path that holds no request is complete; otherwise the
\* answer is the path's own record of whether every request is fully planned
is_complete(path) == path.requests = <<>> \/ path.complete

is_empty(path) == path.request_order = <<>>

\* Path.get_info: the location and the deadline of a node, through the
\* RequestInfo its request_index names
get_info(path, node) ==
    LET request == path.requests[node.request_index + 1].request
    IN  IF node.is_dropoff
        THEN [location |-> request.dropoff, deadline |-> request.dropoff_deadline]
        ELSE [location |-> request.pickup, deadline |-> request.pickup_deadline]

\* Path.get_next_location: the location of the head node, or none
path_next_location(path) ==
    IF is_empty(path) THEN NoLocation
    ELSE get_info(path, Head(path.request_order)).location

\* Path.visit_next_location: pops the head node; the running occupancy of the
\* path goes up by one at a pickup and down by one at a dropoff
visit_next_location(path) ==
    LET node == Head(path.request_order)
    IN  [path EXCEPT !.request_order = Tail(path.request_order),
                     !.current_capacity =
                         IF node.is_dropoff THEN @ - 1 ELSE @ + 1]

Position(next_location, time_to_next_location) ==
    [next_location |-> next_location, time_to_next_location |-> time_to_next_location]

LearningAgent(id, next_location, time_to_next_location, path) ==
    [id |-> id, position |-> Position(next_location, time_to_next_location),
     path |-> path]

(***************************************************************************)
(* NYEnvironment.has_valid_path.                                           *)
(***************************************************************************)
\* a deadline check that never fires (a mutation of DeadlineMissed)
DeadlineMissedNever(arrival, deadline) == FALSE

\* line 282: current_time + travel_time > deadline
DeadlineMissed(arrival, deadline) == arrival > deadline

\* a validator that forgets to store the visit time (a mutation of RecordVisitTime)
RecordVisitTimeSkipped(node, arrival) == node

\* lines 289-291: the node's expected_visit_time becomes the computed arrival
RecordVisitTime(node, arrival) == [node EXCEPT !.expected_visit_time = arrival]

\* lines 297: the running occupancy, before this node's change, is over the maximum
CapacityExceeded(capacity) == capacity > MAX_CAPACITY

\* lines 300-306: the node's current_capacity becomes the occupancy after the node
RecordCapacity(node, next_capacity) == [node EXCEPT !.current_capacity = next_capacity]

\* The state of the loop of lines 277-307: running time, location, occupancy and
\* delay, the nodes as overwritten so far, the diagnostics printed, and the issue
\* the loop returned with, if any.
RECURSIVE ValidateLoop(_, _, _)
ValidateLoop(path, st, k) ==
    IF k > Len(st.nodes) THEN st
    ELSE
        LET node == st.nodes[k]
            info == get_info(path, node)
            arrival == st.time + get_travel_time(st.location, info.location)
        IN  IF DeadlineMissed(arrival, info.deadline)
            THEN [st EXCEPT !.issue = "deadline", !.node_idx = k - 1]
            ELSE
                LET timed == RecordVisitTime(node, arrival)
                    diag1 == IF node.expected_visit_time # arrival
                             THEN st.diag \cup {<<"visit_time", k - 1>>}
                             ELSE st.diag
                    delay == IF node.is_dropoff
                             THEN st.delay + (info.deadline - timed.expected_visit_time)
                             ELSE st.delay
                IN  IF CapacityExceeded(st.capacity)
                    THEN [st EXCEPT !.nodes[k] = timed, !.diag = diag1,
                                    !.issue = "capacity", !.node_idx = k - 1]
                    ELSE
                        LET next_capacity == IF node.is_dropoff
                                             THEN st.capacity - 1
                                             ELSE st.capacity + 1
                            counted == RecordCapacity(timed, next_capacity)
                            diag2 == IF timed.current_capacity # next_capacity
                                     THEN diag1 \cup {<<"capacity", k - 1>>}
                                     ELSE diag1
                        IN  ValidateLoop(path,
                                [time |-> arrival,
                                 location |-> info.location,
                                 capacity |-> counted.current_capacity,
                                 delay |-> delay,
                                 nodes |-> [st.nodes EXCEPT ![k] = counted],
                                 diag |-> diag2,
                                 issue |-> "none",
                                 node_idx |-> -1],
                                k + 1)

\* a validator that takes the vehicle to be at its next location already (a
\* mutation of StartTime)
StartTimeNow(now, time_to_next_location) == now

\* line 271: current_time = self.current_time + agent.position.time_to_next_location
StartTime(now, time_to_next_location) == now + time_to_next_location

\* has_valid_path(agent) at environment time now: what it returns (ok), the issue
\* it printed, the node index in that message, the ignored diagnostics it
\* printed, and the agent's path as the call leaves it.
has_valid_path(agent, now) ==
    IF ~ is_complete(agent.path)
    THEN [ok |-> FALSE, issue |-> "incomplete", node_idx |-> -1, diag |-> {},
          path |-> agent.path]
    ELSE
        LET st == ValidateLoop(agent.path,
                      [time |-> StartTime(now, agent.position.time_to_next_location),
                       location |-> agent.position.next_location,
                       capacity |-> agent.path.current_capacity,
                       delay |-> 0,
                       nodes |-> agent.path.request_order,
                       diag |-> {},
                       issue |-> "none",
                       node_idx |-> -1],
                      1)
        IN  IF st.issue # "none"
            THEN [ok |-> FALSE, issue |-> st.issue, node_idx |-> st.node_idx,
                  diag |-> st.diag,
                  path |-> [agent.path EXCEPT !.request_order = st.nodes]]
            ELSE [ok |-> TRUE, issue |-> "none", node_idx |-> -1, diag |-> st.diag,
                  path |-> [agent.path EXCEPT !.request_order = st.nodes,
                                              !.total_delay = st.delay]]

(***************************************************************************)
(* Environment._get_rebalance_targets: the assignment of idle vehicles to  *)
(* sampled targets, a 0/1 program handed to the solver.                    *)
(***************************************************************************)
\* Python's sum(f[i] for i in range(n))
RECURSIVE SumRange(_, _)
SumRange(f, n) == IF n <= 0 THEN 0 ELSE SumRange(f, n - 1) + f[n - 1]

\* Python's range(n)
Range(n) == 0 .. (n - 1)

\* line 118: binary_var_matrix(range(len(agents)), range(len(possible_targets))):
\* one 0/1 variable per agent and target, here as one row of variables per agent
BinaryVarRow(n) == [Range(n) -> {0, 1}]

\* lines 121-122: the variables of an agent's row sum to 1
AgentConstraint(row, n) == SumRange(row, n) = 1

\* a program without the per-target constraints (a mutation of TargetConstraints)
TargetConstraintsMissing(m, n) == TRUE

\* lines 125-126: for each target the variables of its column sum to 1
TargetConstraints(m, n) ==
    \A target_id \in Range(n) :
        SumRange([agent_id \in Range(n) |-> m[agent_id][target_id]], n) = 1

\* the feasible points of the program for n vehicles and n targets: every
\* agent's row meets its constraint and every target's column does
FeasibleAssignments(n) ==
    {m \in [Range(n) -> {row \in BinaryVarRow(n) : AgentConstraint(row, n)}] :
        TargetConstraints(m, n)}

\* line 129: the objective, the travel time from each vehicle's next_location
\* to the pickup of the target it is assigned
Objective(m, positions, possible_targets) ==
    LET n == Len(positions)
    IN  SumRange([target_id \in Range(n) |->
                    SumRange([agent_id \in Range(n) |->
                                 m[agent_id][target_id]
                                 * get_travel_time(positions[agent_id + 1],
                                                   possible_targets[target_id + 1].pickup)],
                             n)],
                 n)

\* line 132: model.solve() answers with a feasible point of least objective
Solutions(positions, possible_targets) ==
    LET feasible == FeasibleAssignments(Len(positions))
        values == {Objective(m, positions, possible_targets) : m \in feasible}
        least == CHOOSE v \in values : \A w \in values : v <= w
    IN  {m \in feasible : Objective(m, positions, possible_targets) = least}

\* lines 136-141: for each agent in order, the first target whose variable is 1
\* is appended (nothing is appended for an agent that has none)
RECURSIVE AssignedSlots(_, _, _)
AssignedSlots(m, n, agent_id) ==
    IF agent_id >= n THEN <<>>
    ELSE LET ones == {target_id \in Range(n) : m[agent_id][target_id] = 1}
             first == CHOOSE t \in ones : \A u \in ones : t <= u
         IN  (IF ones = {} THEN <<>> ELSE <<first>>) \o AssignedSlots(m, n, agent_id + 1)

AssignedTargets(slots, possible_targets) ==
    [i \in 1 .. Len(slots) |-> possible_targets[slots[i] + 1]]

\* lines 110-112: one choice(recent_request_history) per agent; the sampled
\* positions of the history, as 1-based positions in the deque
Samples(n, history) == [1 .. n -> 1 .. Len(history)]

\* _get_rebalance_targets(agents) with the samples drawn and the solver's answer
GetRebalanceTargets(positions, history, sample, m) ==
    LET possible_targets == [i \in 1 .. Len(positions) |-> history[sample[i]]]
        slots == AssignedSlots(m, Len(positions), 0)
    IN  [positions |-> positions,
         possible_targets |-> possible_targets,
         solution |-> m,
         assigned_slots |-> slots,
         assigned_targets |-> AssignedTargets(slots, possible_targets)]

\* no generator has been created
NoGenerator == [lines |-> <<>>]

\* get_value has not been called
NoScores == [agents |-> <<>>]

NoRebalance == [positions |-> <<>>, possible_targets |-> <<>>, solution |-> <<>>,
                assigned_slots |-> <<>>, assigned_targets |-> <<>>]

(***************************************************************************)
(* Environment._move_agent, update_recent_requests and simulate_motion.    *)
(***************************************************************************)
\* line 87: time_remaining >= 0 after the hop's time was taken off
ReachesNextLocation(time_remaining) == time_remaining >= 0

\* a vehicle that keeps the whole hop ahead of it (a mutation of ContinueDownTheRoad)
ContinueDownTheRoadFromStart(time_to_next_location, time_remaining) ==
    time_to_next_location

\* line 103: time_to_next_location -= (time_remaining + time_to_next_location),
\* time_remaining being negative here
ContinueDownTheRoad(time_to_next_location, time_remaining) ==
    time_to_next_location - (time_remaining + time_to_next_location)

\* _move_agent(agent, time_remaining): the agent as the loop leaves it and the
\* value returned
RECURSIVE move_agent(_, _)
move_agent(agent, time_remaining) ==
    IF time_remaining < 0
    THEN [agent |-> agent, time_remaining |-> time_remaining]
    ELSE
        LET left == time_remaining - agent.position.time_to_next_location
        IN  IF ReachesNextLocation(left)
            THEN
                LET path == IF agent.position.next_location = path_next_location(agent.path)
                            THEN visit_next_location(agent.path)
                            ELSE agent.path
                IN  IF ~ is_empty(path)
                    THEN
                        LET next_location ==
                                get_next_location(agent.position.next_location,
                                                  path_next_location(path))
                        IN  move_agent(
                                [agent EXCEPT
                                    !.path = path,
                                    !.position.time_to_next_location =
                                        get_travel_time(agent.position.next_location,
                                                        next_location),
                                    !.position.next_location = next_location],
                                left)
                    ELSE [agent |-> [agent EXCEPT !.path = path], time_remaining |-> left]
            ELSE
                move_agent(
                    [agent EXCEPT !.position.time_to_next_location =
                                      ContinueDownTheRoad(@, left)],
                    left)

\* a deque that drops the new element when it is full (a mutation of DequeAppend)
DequeAppendDropsNewest(history, request) ==
    IF Len(history) >= REQUEST_HISTORY_SIZE THEN history ELSE Append(history, request)

\* deque(maxlen = REQUEST_HISTORY_SIZE).append: a full deque drops its oldest element
DequeAppend(history, request) ==
    IF Len(history) >= REQUEST_HISTORY_SIZE
    THEN Append(Tail(history), request)
    ELSE Append(history, request)

\* update_recent_requests: recent_request_history.extend(recent_requests)
RECURSIVE update_recent_requests(_, _)
update_recent_requests(history, recent_requests) ==
    IF recent_requests = <<>> THEN history
    ELSE update_recent_requests(DequeAppend(history, Head(recent_requests)),
                                Tail(recent_requests))

\* a selection that also takes a vehicle with no time left (a mutation of HasTimeLeft)
HasTimeLeftOrNone(time_remaining) == time_remaining >= 0

\* line 57: time_remaining > 0
HasTimeLeft(time_remaining) == time_remaining > 0

\* lines 53-58: every agent is moved for one epoch; those that return with time
\* left are collected, in order, with that time
RECURSIVE MoveAll(_, _, _)
MoveAll(fleet, k, collected) ==
    IF k > Len(fleet) THEN [agents |-> fleet, agents_to_rebalance |-> collected]
    ELSE LET r == move_agent(fleet[k], get_epoch_length)
         IN  MoveAll([fleet EXCEPT ![k] = r.agent], k + 1,
                     IF HasTimeLeft(r.time_remaining)
                     THEN Append(collected, [agent |-> k, time_remaining |-> r.time_remaining])
                     ELSE collected)

\* lines 72-73: the dummy target is appended to the path's requests and a
\* pickup node with request_index 0 to its visit order
InsertDummyTarget(path, target) ==
    [path EXCEPT !.requests = Append(@, RequestInfo(target, FALSE)),
                 !.request_order = Append(@, PathNode(FALSE, 0))]

\* lines 79-80: request_order.clear() and requests.clear()
DeleteDummyTarget(path) == [path EXCEPT !.request_order = <<>>, !.requests = <<>>]

\* lines 68-80: the agents to rebalance, in order, each driven towards its target
RECURSIVE MoveToTargets(_, _, _, _)
MoveToTargets(fleet, to_rebalance, rebalancing_targets, idx) ==
    IF idx > Len(rebalancing_targets) THEN fleet
    ELSE LET entry == to_rebalance[idx]
             agent == fleet[entry.agent]
             dummy == [agent EXCEPT
                          !.path = InsertDummyTarget(@, rebalancing_targets[idx])]
             moved == move_agent(dummy, entry.time_remaining).agent
         IN  MoveToTargets(
                 [fleet EXCEPT ![entry.agent] =
                     [moved EXCEPT !.path = DeleteDummyTarget(@)]],
                 to_rebalance, rebalancing_targets, idx + 1)

(***************************************************************************)
(* main.run_epoch: requests arrive in batches, each agent is offered       *)
(* candidate actions, one action per agent is chosen and committed, the    *)
(* committed paths are checked and the motion of one epoch is simulated.   *)
(***************************************************************************)
\* the zones of taxi_randominit_1000.txt the fleet starts in
InitialZones == <<0, 1>>

\* NYEnvironment.get_initial_state
get_initial_state(num_agents) == SubSeq(InitialZones, 1, num_agents)

\* the trips (source, destination) the data file asks for
Trips == << <<0, 2>>, <<2, 1>> >>

\* the batches an epoch of the data file may hold, as positions in Trips
Batches == { <<>>, <<1>>, <<2>>, <<1, 2>> }

\* the wait a request tolerates before its pickup, from its creation
WaitTolerance == 50
\* the time a request tolerates until its dropoff, from its creation
TripTolerance == 90

\* get_request_batch, lines 231-237: the requests of a batch are created with
\* the time of their epoch
NewRequests(batch, now, e) ==
    [k \in 1 .. Len(batch) |->
        Request(<<e, k - 1>>, Trips[batch[k]][1], Trips[batch[k]][2], now,
                now + WaitTolerance, now + TripTolerance)]

\* the action that changes nothing
NoAction(agent) == [requests |-> {}, new_path |-> agent.path]

\* the action that serves one more request: its RequestInfo, its pickup and its
\* dropoff are added at the end of the agent's path
ServeAction(agent, request) ==
    LET index == Len(agent.path.requests)
    IN  [requests |-> {request},
         new_path |-> [agent.path EXCEPT
             !.requests = Append(@, RequestInfo(request, TRUE)),
             !.request_order = @ \o <<PathNode(FALSE, index), PathNode(TRUE, index)>>,
             !.complete = TRUE]]

\* Oracle.get_feasible_actions: the candidate actions of one agent
get_feasible_actions(agent, requests) ==
    {NoAction(agent)} \cup {ServeAction(agent, requests[k]) : k \in 1 .. Len(requests)}

\* the scores the value function may give
Scores == {0, 1}

\* the selections of one candidate per agent in which no request is served
\* by two agents
ConflictFree(candidates) ==
    {sel \in [1 .. Len(candidates) -> UNION {candidates[i] : i \in 1 .. Len(candidates)}] :
        /\ \A i \in 1 .. Len(candidates) : sel[i] \in candidates[i]
        /\ \A i, j \in 1 .. Len(candidates) :
               i # j => sel[i].requests \cap sel[j].requests = {}}

TotalScore(score, sel) ==
    SumRange([i \in Range(Len(sel)) |-> score[<<i + 1, sel[i + 1]>>]], Len(sel))

\* CentralAgent.choose_actions: one action per agent, no request in two
\* chosen actions, the total score as large as possible
choose_actions(candidates, score) ==
    {sel \in ConflictFree(candidates) :
        \A other \in ConflictFree(candidates) :
            TotalScore(score, sel) >= TotalScore(score, other)}

\* a commit that gives every agent the first action's path (a mutation of CommittedPath)
CommittedPathOfFirst(actions, agent_idx) == actions[1].new_path

\* lines 54-55: agents[agent_idx].path = action.new_path
CommittedPath(actions, agent_idx) == actions[agent_idx].new_path

\* an assertion that is compiled away (a mutation of AssertHolds)
AssertStripped(ok) == TRUE

\* line 75: assert envt.has_valid_path(agent)
AssertHolds(ok) == ok

\* lines 74-75: the agents are checked in order until an assertion fails
RECURSIVE SanityCheckAll(_, _, _, _)
SanityCheckAll(fleet, now, k, log) ==
    IF k > Len(fleet) THEN [agents |-> fleet, log |-> log, passed |-> TRUE]
    ELSE LET r == has_valid_path(fleet[k], now)
             checked == [fleet EXCEPT ![k].path = r.path]
             entry == [before |-> fleet[k], now |-> now, ok |-> r.ok, issue |-> r.issue,
                       node_idx |-> r.node_idx, diag |-> r.diag, after |-> r.path]
         IN  IF AssertHolds(r.ok)
             THEN SanityCheckAll(checked, now, k + 1, Append(log, entry))
             ELSE [agents |-> checked, log |-> Append(log, entry), passed |-> FALSE]

Init ==
    /\ agents = [i \in 1 .. NUM_AGENTS |->
                    LearningAgent(i - 1, get_initial_state(NUM_AGENTS)[i], 0, EmptyPath)]
    /\ current_time = 0
    /\ recent_request_history = <<>>
    /\ pc = "next"
    /\ epoch = 0
    /\ current_requests = <<>>
    /\ final_actions = <<>>
    /\ agents_to_rebalance = <<>>
    /\ vlog = <<>>
    /\ rb = NoRebalance
    /\ appended = <<>>
    /\ stepped = <<>>
    /\ mlog = <<>>
    /\ gen = NoGenerator
    /\ scored_actions = NoScores

\* lines 35-38: the generator yields the next batch; the clock is the start of
\* the batch's epoch
NextBatch ==
    /\ pc = "next"
    /\ epoch < MaxEpochs
    /\ \E batch \in Batches :
           current_requests' = NewRequests(batch, epoch * EPOCH_LENGTH, epoch + 1)
    /\ current_time' = epoch * EPOCH_LENGTH
    /\ epoch' = epoch + 1
    /\ pc' = "choose"
    /\ final_actions' = <<>>
    /\ agents_to_rebalance' = <<>>
    /\ vlog' = <<>>
    /\ rb' = NoRebalance
    /\ stepped' = <<>>
    /\ UNCHANGED <<agents, recent_request_history, appended, mlog, gen, scored_actions>>

\* lines 39-40: the generator is exhausted
EndOfRequests ==
    /\ pc = "next"
    /\ pc' = "done"
    /\ UNCHANGED <<agents, current_time, recent_request_history, epoch, current_requests,
                   final_actions, agents_to_rebalance, vlog, rb, appended, stepped,
                   mlog, gen, scored_actions>>

\* lines 45-53: candidates are generated and scored, one action per agent is chosen
ChooseActions ==
    /\ pc = "choose"
    /\ LET candidates == [i \in 1 .. Len(agents) |->
                             get_feasible_actions(agents[i], current_requests)]
           scored == UNION {{<<i, a>> : a \in candidates[i]} : i \in 1 .. Len(agents)}
       IN  \E score \in [scored -> Scores] :
               \E sel \in choose_actions(candidates, score) : final_actions' = sel
    /\ pc' = "commit"
    /\ UNCHANGED <<agents, current_time, recent_request_history, epoch, current_requests,
                   agents_to_rebalance, vlog, rb, appended, stepped,
                   mlog, gen, scored_actions>>

\* lines 54-55: every agent receives the path of its action
Commit ==
    /\ pc = "commit"
    /\ agents' = [i \in 1 .. Len(agents) |->
                     [agents[i] EXCEPT !.path = CommittedPath(final_actions, i)]]
    /\ pc' = "check"
    /\ UNCHANGED <<current_time, recent_request_history, epoch, current_requests,
                   final_actions, agents_to_rebalance, vlog, rb, appended, stepped,
                   mlog, gen, scored_actions>>

\* lines 74-75: the sanity check; a failed assertion ends the run
SanityCheck ==
    /\ pc = "check"
    /\ LET r == SanityCheckAll(agents, current_time, 1, <<>>)
       IN  /\ agents' = r.agents
           /\ vlog' = r.log
           /\ pc' = IF r.passed THEN "simulate" ELSE "aborted"
    /\ UNCHANGED <<current_time, recent_request_history, epoch, current_requests,
                   final_actions, agents_to_rebalance, rb, appended, stepped,
                   mlog, gen, scored_actions>>

\* simulate_motion, lines 52-58: all agents are moved
SimulateMove ==
    /\ pc = "simulate"
    /\ LET r == MoveAll(agents, 1, <<>>)
       IN  /\ agents' = r.agents
           /\ stepped' = r.agents
           /\ agents_to_rebalance' = r.agents_to_rebalance
    /\ pc' = "sim_update"
    /\ UNCHANGED <<current_time, recent_request_history, epoch, current_requests,
                   final_actions, vlog, rb, appended, mlog, gen, scored_actions>>

\* simulate_motion, line 61: the batch enters the history
SimulateUpdate ==
    /\ pc = "sim_update"
    /\ recent_request_history' =
           update_recent_requests(recent_request_history, current_requests)
    /\ appended' = appended \o current_requests
    /\ pc' = "sim_rebalance"
    /\ UNCHANGED <<agents, current_time, epoch, current_requests, final_actions,
                   agents_to_rebalance, vlog, rb, stepped,
                   mlog, gen, scored_actions>>

\* simulate_motion, line 64: nothing to rebalance
SimulateNoRebalance ==
    /\ pc = "sim_rebalance"
    /\ agents_to_rebalance = <<>>
    /\ pc' = "next"
    /\ UNCHANGED <<agents, current_time, recent_request_history, epoch, current_requests,
                   final_actions, agents_to_rebalance, vlog, rb, appended, stepped,
                   mlog, gen, scored_actions>>

\* simulate_motion, line 65 with line 111: choice() of an empty history raises
SimulateRebalanceFails ==
    /\ pc = "sim_rebalance"
    /\ agents_to_rebalance # <<>>
    /\ recent_request_history = <<>>
    /\ pc' = "crashed"
    /\ UNCHANGED <<agents, current_time, recent_request_history, epoch, current_requests,
                   final_actions, agents_to_rebalance, vlog, rb, appended, stepped,
                   mlog, gen, scored_actions>>

\* simulate_motion, lines 65-80: targets are sampled and assigned, every agent
\* with time left drives towards its target, the dummy target is deleted
SimulateRebalance ==
    /\ pc = "sim_rebalance"
    /\ agents_to_rebalance # <<>>
    /\ recent_request_history # <<>>
    /\ LET n == Len(agents_to_rebalance)
           positions == [i \in 1 .. n |->
                            agents[agents_to_rebalance[i].agent].position.next_location]
       IN  \E sample \in Samples(n, recent_request_history) :
               \E m \in Solutions(positions,
                                  [i \in 1 .. n |-> recent_request_history[sample[i]]]) :
                   LET r == GetRebalanceTargets(positions, recent_request_history,
                                                sample, m)
                   IN  /\ rb' = r
                       /\ agents' = MoveToTargets(agents, agents_to_rebalance,
                                                  r.assigned_targets, 1)
    /\ pc' = "next"
    /\ UNCHANGED <<current_time, recent_request_history, epoch, current_requests,
                   final_actions, agents_to_rebalance, vlog, appended, stepped,
                   mlog, gen, scored_actions>>

Next ==
    \/ NextBatch
    \/ EndOfRequests
    \/ ChooseActions
    \/ Commit
    \/ SanityCheck
    \/ SimulateMove
    \/ SimulateUpdate
    \/ SimulateNoRebalance
    \/ SimulateRebalanceFails
    \/ SimulateRebalance

Spec == Init /\ [][Next]_vars

(***************************************************************************)
(* The validator on its own: a vehicle with an arbitrary position, an      *)
(* arbitrary visit order over two requests with arbitrary stale values on  *)
(* its nodes and an arbitrary declared occupancy is validated twice in a   *)
(* row, nothing else touching it in between.                               *)
(***************************************************************************)
\* the requests the validated path serves: 0 -> 2 and 1 -> 0
ValidatedRequests ==
    << RequestInfo(Request(<<0, 0>>, 0, 2, 0, 40, 60), TRUE),
       RequestInfo(Request(<<0, 1>>, 1, 0, 0, 60, 90), TRUE) >>

\* stale (expected_visit_time, current_capacity) pairs a node may carry
StaleValues == { <<0, 0>>, <<50, 1>> }

ValidatedNodes ==
    { [is_dropoff |-> d, request_index |-> r,
       expected_visit_time |-> sv[1], current_capacity |-> sv[2]] :
        d \in BOOLEAN, r \in 0 .. (Len(ValidatedRequests) - 1), sv \in StaleValues }

VisitOrders == UNION { [1 .. n -> ValidatedNodes] : n \in 0 .. MaxNodes }

ValidatedPaths ==
    { [request_order |-> order, requests |-> ValidatedRequests,
       current_capacity |-> c, total_delay |-> 0, complete |-> done] :
        order \in VisitOrders, c \in 0 .. (MAX_CAPACITY + 1), done \in BOOLEAN }

InitValidate ==
    /\ \E nl \in {0, 1}, ttnl \in {0, 20}, path \in ValidatedPaths :
           agents = << LearningAgent(0, nl, ttnl, path) >>
    /\ current_time \in {0, 30}
    /\ recent_request_history = <<>>
    /\ pc = "validate"
    /\ epoch = 0
    /\ current_requests = <<>>
    /\ final_actions = <<>>
    /\ agents_to_rebalance = <<>>
    /\ vlog = <<>>
    /\ rb = NoRebalance
    /\ appended = <<>>
    /\ stepped = <<>>
    /\ mlog = <<>>
    /\ gen = NoGenerator
    /\ scored_actions = NoScores

\* one call has_valid_path(agent): the agent's path is whatever the call leaves
Validate ==
    /\ pc = "validate"
    /\ Len(vlog) < 2
    /\ LET r == has_valid_path(agents[1], current_time)
       IN  /\ agents' = [agents EXCEPT ![1].path = r.path]
           /\ vlog' = Append(vlog, [before |-> agents[1], now |-> current_time,
                                    ok |-> r.ok, issue |-> r.issue,
                                    node_idx |-> r.node_idx, diag |-> r.diag,
                                    after |-> r.path])
    /\ UNCHANGED <<current_time, recent_request_history, pc, epoch, current_requests,
                   final_actions, agents_to_rebalance, rb, appended, stepped,
                   mlog, gen, scored_actions>>

NextValidate == Validate

SpecValidate == InitValidate /\ [][NextValidate]_vars

(***************************************************************************)
(* What the claims about the validator are measured against: arrival times *)
(* and occupancies computed from the path as it was before the call.       *)
(***************************************************************************)
\* the location of the k-th stop (k = 0: where the vehicle is heading now)
StopLocation(agent, k) ==
    IF k = 0 THEN agent.position.next_location
    ELSE get_info(agent.path, agent.path.request_order[k]).location

StopDeadline(agent, k) == get_info(agent.path, agent.path.request_order[k]).deadline

RECURSIVE ArrivalTime(_, _, _)
ArrivalTime(agent, now, k) ==
    IF k = 0 THEN now + agent.position.time_to_next_location
    ELSE ArrivalTime(agent, now, k - 1)
         + travel_time[StopLocation(agent, k - 1)][StopLocation(agent, k)]

\* the occupancy after the first k nodes, from the declared occupancy
OccupancyAfter(path, k) ==
    path.current_capacity
    + Cardinality({j \in 1 .. k : ~ path.request_order[j].is_dropoff})
    - Cardinality({j \in 1 .. k : path.request_order[j].is_dropoff})

InRange(c) == c >= 0 /\ c <= MAX_CAPACITY

NodesOf(agent) == 1 .. Len(agent.path.request_order)

\* C1: when has_valid_path succeeds on a complete path every node is reached by
\* its deadline, the arrival times being those of driving from stop to stop
\* from current_time + time_to_next_location; and when it fails for a deadline
\* the index it reports is the first node that is reached too late.
C1_DeadlinesKept ==
    \A i \in 1 .. Len(vlog) :
        LET e == vlog[i]
            late(k) == ArrivalTime(e.before, e.now, k) > StopDeadline(e.before, k)
        IN  is_complete(e.before.path) =>
                /\ e.ok => \A k \in NodesOf(e.before) : ~ late(k)
                /\ e.issue = "deadline" =>
                       /\ e.node_idx + 1 \in NodesOf(e.before)
                       /\ late(e.node_idx + 1)
                       /\ \A j \in 1 .. e.node_idx : ~ late(j)

\* a pickup reached in time followed by a dropoff reached late: the failure
\* names index 1
C1_Witness ==
    \E i \in 1 .. Len(vlog) :
        LET e == vlog[i]
        IN  /\ Len(e.before.path.request_order) = 2
            /\ ~ e.before.path.request_order[1].is_dropoff
            /\ e.before.path.request_order[2].is_dropoff
            /\ e.issue = "deadline"
            /\ e.node_idx = 1

\* C2: on every path the validator accepts, the occupancy after every prefix
\* of the visit order lies in [0, MAX_CAPACITY].
C2_OccupancyInRange ==
    \A i \in 1 .. Len(vlog) :
        LET e == vlog[i]
        IN  e.ok => \A k \in NodesOf(e.before) : InRange(OccupancyAfter(e.before.path, k))

\* C3: when the occupancy leaves [0, MAX_CAPACITY] first at node k and every
\* node up to k is reached by its deadline, the validator fails with a
\* capacity error that names node k.
C3_FirstOffenderReported ==
    \A i \in 1 .. Len(vlog) :
        LET e == vlog[i]
        IN  \A k \in NodesOf(e.before) :
                ( /\ is_complete(e.before.path)
                  /\ ~ InRange(OccupancyAfter(e.before.path, k))
                  /\ \A j \in 1 .. (k - 1) : InRange(OccupancyAfter(e.before.path, j))
                  /\ \A j \in 1 .. k :
                         ArrivalTime(e.before, e.now, j) <= StopDeadline(e.before, j) )
                => (e.issue = "capacity" /\ e.node_idx = k - 1)

\* C4: a call of has_valid_path that fails leaves the path exactly as it was.
C4_FailureLeavesPath ==
    \A i \in 1 .. Len(vlog) : ~ vlog[i].ok => vlog[i].after = vlog[i].before.path

\* C5: a second call right after a successful one succeeds too, leaves every
\* expected_visit_time, current_capacity and total_delay as the first call
\* left them, and prints no ignored diagnostic.
C5_Idempotent ==
    (Len(vlog) = 2 /\ vlog[1].ok) =>
        /\ vlog[2].ok
        /\ vlog[2].after = vlog[1].after
        /\ vlog[2].diag = {}

\* the first call corrected stale values on a path of at least two nodes
C5_Witness ==
    /\ Len(vlog) = 2
    /\ vlog[1].ok
    /\ Len(vlog[1].before.path.request_order) >= 2
    /\ \E k \in NodesOf(vlog[1].before) : <<"visit_time", k - 1>> \in vlog[1].diag
    /\ \E k \in NodesOf(vlog[1].before) : <<"capacity", k - 1>> \in vlog[1].diag

(***************************************************************************)
(* The rebalancing solver on its own: up to MaxIdle idle vehicles at       *)
(* arbitrary locations, a history of two requests (pickups at 0 and at 2). *)
(***************************************************************************)
SolverHistory ==
    << Request(<<0, 0>>, 0, 2, 0, 40, 60), Request(<<0, 1>>, 2, 1, 0, 60, 90) >>

InitRebalance ==
    /\ \E n \in 1 .. MaxIdle : \E where \in [1 .. n -> Locations] :
           agents = [i \in 1 .. n |-> LearningAgent(i - 1, where[i], 0, EmptyPath)]
    /\ current_time = 0
    /\ recent_request_history = SolverHistory
    /\ pc = "rebalance"
    /\ epoch = 0
    /\ current_requests = <<>>
    /\ final_actions = <<>>
    /\ agents_to_rebalance = <<>>
    /\ vlog = <<>>
    /\ rb = NoRebalance
    /\ appended = <<>>
    /\ stepped = <<>>
    /\ mlog = <<>>
    /\ gen = NoGenerator
    /\ scored_actions = NoScores

\* one call _get_rebalance_targets(agents)
SolveRebalance ==
    /\ pc = "rebalance"
    /\ rb = NoRebalance
    /\ LET positions == [i \in 1 .. Len(agents) |-> agents[i].position.next_location]
       IN  \E sample \in Samples(Len(agents), recent_request_history) :
               \E m \in Solutions(positions,
                                  [i \in 1 .. Len(agents) |->
                                      recent_request_history[sample[i]]]) :
                   rb' = GetRebalanceTargets(positions, recent_request_history, sample, m)
    /\ pc' = "solved"
    /\ UNCHANGED <<agents, current_time, recent_request_history, epoch, current_requests,
                   final_actions, agents_to_rebalance, vlog, appended, stepped,
                   mlog, gen, scored_actions>>

NextRebalance == SolveRebalance

SpecRebalance == InitRebalance /\ [][NextRebalance]_vars

\* the total travel time of giving vehicle i the target in slot p[i]
AssignmentCost(p, positions, possible_targets) ==
    SumRange([i \in Range(Len(positions)) |->
                 travel_time[positions[i + 1]][possible_targets[p[i + 1] + 1].pickup]],
             Len(positions))

\* every way to give n vehicles n distinct slots
Bijections(n) ==
    {p \in [1 .. n -> Range(n)] : \A i, j \in 1 .. n : p[i] = p[j] => i = j}

\* C6: the solver answers with one target per idle vehicle in vehicle order,
\* the targets being the sampled slots each claimed exactly once, and the
\* total travel time is least among all bijections of vehicles to slots.
C6_OptimalBijection ==
    pc = "solved" =>
        LET n == Len(rb.positions)
            slots == rb.assigned_slots
        IN  /\ Len(rb.assigned_targets) = n
            /\ Len(slots) = n
            /\ slots \in Bijections(n)
            /\ \A i \in 1 .. n : rb.assigned_targets[i] = rb.possible_targets[slots[i] + 1]
            /\ \A p \in Bijections(n) :
                   AssignmentCost(slots, rb.positions, rb.possible_targets)
                       <= AssignmentCost(p, rb.positions, rb.possible_targets)

\* three vehicles, a target sampled twice, and an assignment that is not the
\* identity (giving vehicle i slot i would cost more)
C6_Witness ==
    /\ pc = "solved"
    /\ Len(rb.positions) = 3
    /\ rb.possible_targets[1] = rb.possible_targets[2]
    /\ rb.assigned_slots # <<0, 1, 2>>
    /\ AssignmentCost(rb.assigned_slots, rb.positions, rb.possible_targets)
           < AssignmentCost(<<0, 1, 2>>, rb.positions, rb.possible_targets)

(***************************************************************************)
(* Claims about the epoch loop.                                            *)
(***************************************************************************)
\* simulate_motion has returned in this epoch
MotionReturned == pc \in {"next", "done"} /\ stepped # <<>>

\* agent i was among the agents simulate_motion rebalanced
Rebalanced(i) ==
    \E k \in 1 .. Len(agents_to_rebalance) : agents_to_rebalance[k].agent = i

\* C7: when simulate_motion has returned no path holds a synthetic rebalancing
\* stop: the visit order of a rebalanced vehicle is empty, no RequestInfo with
\* assigned = false is left in any path, the paths of the other vehicles are as
\* the stepping left them, and no vehicle's occupancy differs from what it was
\* before the synthetic pickup was spliced in.
C7_NoSyntheticLeak ==
    MotionReturned =>
        \A i \in 1 .. Len(agents) :
            /\ \A j \in 1 .. Len(agents[i].path.requests) :
                   agents[i].path.requests[j].assigned
            /\ Rebalanced(i) => agents[i].path.request_order = <<>>
            /\ ~ Rebalanced(i) => agents[i].path = stepped[i].path
            /\ agents[i].path.current_capacity = stepped[i].path.current_capacity

\* the path holds a pickup node of the request
HoldsPickup(path, request) ==
    \E k \in 1 .. Len(path.request_order) :
        /\ ~ path.request_order[k].is_dropoff
        /\ path.requests[path.request_order[k].request_index + 1].request = request

\* the paths of this epoch's final actions are the agents' paths
Committed == pc \in {"check", "simulate", "aborted"}

LastN(seq, n) ==
    IF Len(seq) <= n THEN seq ELSE SubSeq(seq, Len(seq) - n + 1, Len(seq))

\* the elements of a sequence
Elements(seq) == {seq[i] : i \in 1 .. Len(seq)}

\* C10: the history holds at most REQUEST_HISTORY_SIZE requests, namely the
\* last ones ever appended, in arrival order; the batch of an epoch is
\* appended after every vehicle was advanced and before targets are sampled,
\* so the targets are drawn from a history that holds the epoch's batch.
C10_RollingHistory ==
    /\ Len(recent_request_history) <= REQUEST_HISTORY_SIZE
    /\ recent_request_history = LastN(appended, REQUEST_HISTORY_SIZE)
    /\ pc \in {"choose", "commit", "check", "aborted", "simulate", "sim_update"} =>
           Elements(current_requests) \cap Elements(appended) = {}
    /\ pc = "sim_update" => (stepped # <<>> /\ agents = stepped)
    /\ (pc \in {"sim_rebalance", "crashed"} \/ MotionReturned) =>
           LastN(appended, Len(current_requests)) = current_requests
    /\ rb # NoRebalance =>
           Elements(rb.possible_targets) \subseteq
               Elements(LastN(appended, REQUEST_HISTORY_SIZE))

\* the oldest request has been evicted and a target was drawn from the batch
\* of the current epoch
C10_Witness ==
    /\ MotionReturned
    /\ Len(appended) > REQUEST_HISTORY_SIZE
    /\ Head(appended) \notin Elements(recent_request_history)
    /\ rb # NoRebalance
    /\ Elements(rb.possible_targets) \cap Elements(current_requests) # {}

(***************************************************************************)
(* ValueFunction.get_value on its own (RewardPlusDelay and                 *)
(* NeuralNetworkBased): a batch of vehicles, each with its list of         *)
(* candidate actions.  Scores are kept in thousandths.                     *)
(***************************************************************************)
\* most vehicles in a batch handed to get_value
MaxVehicles == 2
\* most candidate actions of one vehicle
MaxCandidates == 3

\* RewardPlusDelay.__init__: DELAY_COEFFICIENT = 10e-4, in thousandths
DELAY_COEFFICIENT == 1
\* NeuralNetworkBased.__init__: GAMMA = 0.9, in thousandths
GAMMA == 900

\* the k-th candidate of vehicle i: the first one serves nothing, the k-th
\* serves k - 1 requests and leaves a total delay of 10 (k - 1)
CandidateAction(i, k) ==
    [requests |-> {<<i, j>> : j \in 1 .. (k - 1)},
     new_path |-> [EmptyPath EXCEPT !.total_delay = 10 * (k - 1)]]

\* Environment.get_reward: sum([request.value for request in action.requests]),
\* every request being worth one unit
get_reward(action) == 1000 * Cardinality(action.requests)

\* the default of the is_terminal parameter, repeat(False): an iterator that
\* never ends
RepeatFalse == [repeat |-> TRUE, values |-> <<>>]

\* an is_terminal argument that is a tuple of flags
TerminalFlags(flags) == [repeat |-> FALSE, values |-> flags]

\* Python's zip(a, b, is_terminal) stops at its shortest argument
ZipLength(a, b, is_terminal) ==
    LET shorter == IF Len(a) <= Len(b) THEN Len(a) ELSE Len(b)
    IN  IF is_terminal.repeat \/ shorter <= Len(is_terminal.values)
        THEN shorter
        ELSE Len(is_terminal.values)

\* the k-th element an iteration over is_terminal yields
TerminalAt(is_terminal, k) == IF is_terminal.repeat THEN FALSE ELSE is_terminal.values[k]

\* RewardPlusDelay.get_value, lines 56-58
RewardPlusDelayScore(action) ==
    get_reward(action) + DELAY_COEFFICIENT * action.new_path.total_delay

\* RewardPlusDelay.get_value, lines 50-63
RewardPlusDelayGetValue(agent_ids, feasible_actions_all_agents, current_times) ==
    LET n == IF Len(agent_ids) <= Len(feasible_actions_all_agents)
             THEN Len(agent_ids) ELSE Len(feasible_actions_all_agents)
        zipped == IF n <= Len(current_times) THEN n ELSE Len(current_times)
    IN  [i \in 1 .. zipped |->
            [k \in 1 .. Len(feasible_actions_all_agents[i]) |->
                << feasible_actions_all_agents[i][k],
                   RewardPlusDelayScore(feasible_actions_all_agents[i][k]) >>]]

\* what the motion simulator may be called with: the signature of
\* Environment.simulate_motion in this module's source, and the one line 143
\* of ValueFunction.py calls
MotionSignatures == {"agents, current_requests", "agents, rebalance"}

\* _format_inputs_next_state, lines 136-148: one input row per vehicle and
\* candidate, in order; the call simulate_motion([agent], rebalance=False)
\* raises TypeError when the simulator has no such parameter
FormatInputsNextState(feasible_actions_all_agents, signature) ==
    IF /\ signature # "agents, rebalance"
       /\ \E i \in 1 .. Len(feasible_actions_all_agents) :
              feasible_actions_all_agents[i] # <<>>
    THEN [raised |-> "TypeError", inputs |-> <<>>]
    ELSE [raised |-> "nothing",
          inputs |-> [i \in 1 .. Len(feasible_actions_all_agents) |->
                         [k \in 1 .. Len(feasible_actions_all_agents[i]) |-> <<i, k>>]]]

\* _flatten_NN_input, lines 158-166: shape_info holds the running sums of the
\* lengths of the lists, starting with 0
RECURSIVE ShapeInfo(_, _)
ShapeInfo(array_of_list, idx) ==
    IF idx = 0 THEN <<0>>
    ELSE LET sofar == ShapeInfo(array_of_list, idx - 1)
         IN  Append(sofar, sofar[Len(sofar)] + Len(array_of_list[idx]))

\* _flatten_NN_input, lines 168-172: the lists stacked into one array
RECURSIVE Stack(_, _)
Stack(array_of_list, idx) ==
    IF idx = 0 THEN <<>> ELSE Stack(array_of_list, idx - 1) \o array_of_list[idx]

\* _reconstruct_NN_output, lines 182-189: the output cut at shape_info
\* (NN_output[start_idx:end_idx], 0-based and end-exclusive)
ReconstructNNOutput(NN_output, shape_info) ==
    [idx \in 1 .. (Len(shape_info) - 1) |->
        SubSeq(NN_output, shape_info[idx] + 1, shape_info[idx + 1])]

\* get_score, lines 203-206
get_score(action, value, is_terminal) ==
    get_reward(action) + (IF ~ is_terminal THEN GAMMA * value ELSE 0)

\* NeuralNetworkBased.get_value, lines 209-212: per vehicle the candidates,
\* the predictions and is_terminal are zipped
NeuralScoredActions(expected_values_all_agents, actions_all_agents, is_terminal) ==
    LET n == IF Len(expected_values_all_agents) <= Len(actions_all_agents)
             THEN Len(expected_values_all_agents)
             ELSE Len(actions_all_agents)
    IN  [i \in 1 .. n |->
            [k \in 1 .. ZipLength(actions_all_agents[i], expected_values_all_agents[i],
                                  is_terminal) |->
                << actions_all_agents[i][k],
                   get_score(actions_all_agents[i][k], expected_values_all_agents[i][k],
                             TerminalAt(is_terminal, k)) >>]]

\* the values model.predict may answer with, one per input row
Predictions == {1, 2}

\* the batches get_value is called with: every vehicle has between one and
\* MaxCandidates candidates (the no-op action is always offered); is_terminal
\* is left at its default or holds one flag per vehicle, as update passes it
InitValue ==
    /\ \E n \in 1 .. MaxVehicles :
         \E counts \in [1 .. n -> 1 .. MaxCandidates] :
           \E flags \in {RepeatFalse} \cup {TerminalFlags(f) : f \in [1 .. n -> BOOLEAN]} :
             \E signature \in MotionSignatures :
               scored_actions =
                   [agents |-> [i \in 1 .. n |-> i - 1],
                    feasible_actions_all_agents |->
                        [i \in 1 .. n |-> [k \in 1 .. counts[i] |-> CandidateAction(i, k)]],
                    current_times |-> [i \in 1 .. n |-> 0],
                    is_terminal |-> flags,
                    signature |-> signature,
                    predicted |-> <<>>,
                    outcome |-> "pending",
                    result |-> <<>>]
    /\ agents = <<>>
    /\ current_time = 0
    /\ recent_request_history = <<>>
    /\ pc = "get_value"
    /\ epoch = 0
    /\ current_requests = <<>>
    /\ final_actions = <<>>
    /\ agents_to_rebalance = <<>>
    /\ vlog = <<>>
    /\ rb = NoRebalance
    /\ appended = <<>>
    /\ stepped = <<>>
    /\ mlog = <<>>
    /\ gen = NoGenerator

\* one call RewardPlusDelay.get_value(agents, feasible_actions_all_agents,
\* current_times); the method has no is_terminal parameter
RewardPlusDelayValue ==
    /\ pc = "get_value"
    /\ scored_actions.is_terminal.repeat
    /\ scored_actions' =
           [scored_actions EXCEPT
               !.outcome = "returned",
               !.result = RewardPlusDelayGetValue(scored_actions.agents,
                              scored_actions.feasible_actions_all_agents,
                              scored_actions.current_times)]
    /\ pc' = "RewardPlusDelay"
    /\ UNCHANGED <<agents, current_time, recent_request_history, epoch, current_requests,
                   final_actions, agents_to_rebalance, vlog, rb, appended, stepped,
                   mlog, gen>>

\* one call NeuralNetworkBased.get_value(agents, feasible_actions_all_agents,
\* current_times, is_terminal) whose formatting of the next states raises
NeuralNetworkValueRaises ==
    /\ pc = "get_value"
    /\ FormatInputsNextState(scored_actions.feasible_actions_all_agents,
                             scored_actions.signature).raised = "TypeError"
    /\ scored_actions' = [scored_actions EXCEPT !.outcome = "TypeError"]
    /\ pc' = "NeuralNetworkBased"
    /\ UNCHANGED <<agents, current_time, recent_request_history, epoch, current_requests,
                   final_actions, agents_to_rebalance, vlog, rb, appended, stepped,
                   mlog, gen>>

\* one call NeuralNetworkBased.get_value(agents, feasible_actions_all_agents,
\* current_times, is_terminal) that returns, lines 193-214
NeuralNetworkValue ==
    /\ pc = "get_value"
    /\ LET feasible == scored_actions.feasible_actions_all_agents
           formatted == FormatInputsNextState(feasible, scored_actions.signature)
           inputs == formatted.inputs
       IN  /\ formatted.raised = "nothing"
           /\ LET shape_info == ShapeInfo(inputs, Len(inputs))
                  rows == Stack(inputs, Len(inputs))
              IN  \E predict \in [1 .. Len(rows) -> Predictions] :
                      scored_actions' =
                          [scored_actions EXCEPT
                              !.outcome = "returned",
                              !.predicted = [r \in 1 .. Len(rows) |->
                                                <<rows[r], predict[r]>>],
                              !.result = NeuralScoredActions(
                                             ReconstructNNOutput(predict, shape_info),
                                             feasible, scored_actions.is_terminal)]
    /\ pc' = "NeuralNetworkBased"
    /\ UNCHANGED <<agents, current_time, recent_request_history, epoch, current_requests,
                   final_actions, agents_to_rebalance, vlog, rb, appended, stepped,
                   mlog, gen>>

NextValue ==
    \/ RewardPlusDelayValue
    \/ NeuralNetworkValueRaises
    \/ NeuralNetworkValue

SpecValue == InitValue /\ [][NextValue]_vars

\* the value the network predicted for the k-th candidate of vehicle i
PredictedFor(i, k) ==
    LET r == CHOOSE r \in 1 .. Len(scored_actions.predicted) :
                 scored_actions.predicted[r][1] = <<i, k>>
    IN  scored_actions.predicted[r][2]

\* the terminal flag of vehicle i
TerminalOf(i) ==
    IF scored_actions.is_terminal.repeat THEN FALSE
    ELSE scored_actions.is_terminal.values[i]

\* the score the k-th candidate of vehicle i is to get
ExpectedScore(i, k) ==
    LET action == scored_actions.feasible_actions_all_agents[i][k]
    IN  IF pc = "RewardPlusDelay"
        THEN get_reward(action) + DELAY_COEFFICIENT * action.new_path.total_delay
        ELSE get_reward(action) + (IF TerminalOf(i) THEN 0 ELSE GAMMA * PredictedFor(i, k))

\* C12: a call of get_value returns, for every vehicle of the batch in order,
\* one (action, score) pair per candidate of that vehicle in the order of the
\* candidates, and each score is the one of its own action, computed with the
\* terminal flag of its own vehicle.
C12_OnePairPerCandidate ==
    pc \in {"RewardPlusDelay", "NeuralNetworkBased"} =>
        /\ scored_actions.outcome = "returned"
        /\ Len(scored_actions.result) = Len(scored_actions.agents)
        /\ \A i \in 1 .. Len(scored_actions.agents) :
               /\ Len(scored_actions.result[i])
                      = Len(scored_actions.feasible_actions_all_agents[i])
               /\ \A k \in 1 .. Len(scored_actions.feasible_actions_all_agents[i]) :
                      /\ scored_actions.result[i][k][1]
                             = scored_actions.feasible_actions_all_agents[i][k]
                      /\ scored_actions.result[i][k][2] = ExpectedScore(i, k)

(***************************************************************************)
(* Claims about the selection for rebalancing.                             *)
(***************************************************************************)
\* the first stepping pass of simulate_motion is over in this epoch
FirstPassDone == stepped # <<>>

\* agent i as the sanity check left it, which is how simulate_motion found it
BeforeMotion(i) == [vlog[i].before EXCEPT !.path = vlog[i].after]

\* the entry of agent i among the agents to rebalance
RebalanceEntry(i) ==
    CHOOSE k \in 1 .. Len(agents_to_rebalance) : agents_to_rebalance[k].agent = i

\* the locations on the shortest path from s to d, both ends included
RECURSIVE Route(_, _)
Route(s, d) == IF s = d THEN {d} ELSE {s} \cup Route(get_next_location(s, d), d)

\* the rebalancing pass of simulate_motion has run to its end in this epoch
RebalancingDone == MotionReturned /\ rb # NoRebalance

SplicedPath(i) ==
    InsertDummyTarget(stepped[i].path, rb.assigned_targets[RebalanceEntry(i)])

\* C14: for every vehicle that was rebalanced, the synthetic stop spliced onto
\* its path resolves through get_info to the pickup location of the target the
\* solver assigned to it, and the vehicle ends on the shortest path from where
\* it stood to that pickup, whatever RequestInfo entries its path still held.
C14_DummyResolvesToTarget ==
    RebalancingDone =>
        \A i \in 1 .. Len(agents) :
            Rebalanced(i) =>
                LET target == rb.assigned_targets[RebalanceEntry(i)]
                    path == SplicedPath(i)
                    dummy == path.request_order[Len(path.request_order)]
                IN  /\ get_info(path, dummy).location = target.pickup
                    /\ agents[i].position.next_location
                           \in Route(stepped[i].position.next_location, target.pickup)

\* C16: simulate_motion never ends in an error: when a vehicle is left with
\* time to spare, the history the targets are drawn from is not empty.
C16_MotionCompletes ==
    /\ pc # "crashed"
    /\ (pc = "sim_rebalance" /\ agents_to_rebalance # <<>>) =>
           recent_request_history # <<>>

(***************************************************************************)
(* The stepper on its own: a vehicle with an arbitrary position and an     *)
(* arbitrary visit order over two requests is checked as run_epoch checks  *)
(* it and then moved by one call of _move_agent.                           *)
(***************************************************************************)
\* the requests the moved path serves: 0 -> 2 and 1 -> 0
MovedRequests ==
    << RequestInfo(Request(<<0, 0>>, 0, 2, 0, 60, 150), TRUE),
       RequestInfo(Request(<<0, 1>>, 1, 0, 0, 80, 150), TRUE) >>

MovedOrders ==
    UNION { [1 .. n -> {PathNode(d, r) : d \in BOOLEAN,
                                         r \in 0 .. (Len(MovedRequests) - 1)}] :
                n \in 0 .. MaxNodes }

\* the times a vehicle may still need to its next location
HopTimesLeft == {0, 10, 30}

\* the budgets _move_agent is called with: the epoch length (line 54) and
\* times left over from a first pass (line 76)
Budgets == {get_epoch_length, 0, 10, 40}

InitMove ==
    /\ \E nl \in Locations, ttnl \in HopTimesLeft, order \in MovedOrders :
           agents = << LearningAgent(0, nl, ttnl,
                           [EmptyPath EXCEPT !.request_order = order,
                                             !.requests = MovedRequests]) >>
    /\ current_time \in {0, 30}
    /\ recent_request_history = <<>>
    /\ pc = "check"
    /\ epoch = 0
    /\ current_requests = <<>>
    /\ final_actions = <<>>
    /\ agents_to_rebalance = <<>>
    /\ vlog = <<>>
    /\ rb = NoRebalance
    /\ appended = <<>>
    /\ stepped = <<>>
    /\ mlog = <<>>
    /\ gen = NoGenerator
    /\ scored_actions = NoScores

\* main.run_epoch, lines 74-75, for the one vehicle
CheckBeforeMove ==
    /\ pc = "check"
    /\ LET r == SanityCheckAll(agents, current_time, 1, <<>>)
       IN  /\ agents' = r.agents
           /\ vlog' = r.log
           /\ pc' = IF r.passed THEN "move" ELSE "aborted"
    /\ UNCHANGED <<current_time, recent_request_history, epoch, current_requests,
                   final_actions, agents_to_rebalance, rb, appended, stepped,
                   mlog, gen, scored_actions>>

\* one call _move_agent(agent, time_remaining)
MoveAgent ==
    /\ pc = "move"
    /\ \E budget \in Budgets :
           LET r == move_agent(agents[1], budget)
           IN  /\ agents' = << r.agent >>
               /\ mlog' = Append(mlog, [before |-> agents[1], now |-> current_time,
                                        budget |-> budget, after |-> r.agent,
                                        returned |-> r.time_remaining])
    /\ pc' = "moved"
    /\ UNCHANGED <<current_time, recent_request_history, epoch, current_requests,
                   final_actions, agents_to_rebalance, vlog, rb, appended, stepped,
                   gen, scored_actions>>

NextMove ==
    \/ CheckBeforeMove
    \/ MoveAgent

SpecMove == InitMove /\ [][NextMove]_vars

\* C13: a call of _move_agent that returns a negative value v left the vehicle
\* in the middle of a hop with time_to_next_location = -v still to go; when
\* the budget b is smaller than the time t of the hop the vehicle is on, that is
\* t - b with next_location and path untouched and v = -(t - b); and nothing is
\* lost by stopping there: going on with any further budget returns what one
\* call with the two budgets together returns and leaves the vehicle with the
\* same next_location and path, and in the middle of a hop with the same
\* time_to_next_location.
C13_MidHopStop ==
    \A c \in 1 .. Len(mlog) :
        LET e == mlog[c]
            t == e.before.position.time_to_next_location
        IN  e.returned < 0 =>
                /\ e.after.position.time_to_next_location = - e.returned
                /\ e.budget < t =>
                       /\ e.after = [e.before EXCEPT
                                        !.position.time_to_next_location = t - e.budget]
                       /\ e.returned = - (t - e.budget)
                /\ \A further \in Budgets :
                       LET resumed == move_agent(e.after, further)
                           at_once == move_agent(e.before, e.budget + further)
                       IN  /\ resumed.time_remaining = at_once.time_remaining
                           /\ resumed.agent.path = at_once.agent.path
                           /\ resumed.agent.position.next_location
                                  = at_once.agent.position.next_location
                           /\ resumed.time_remaining < 0 =>
                                  resumed.agent.position = at_once.agent.position

\* a vehicle that visited a node and then ran out of time in the middle of the
\* next hop
C13_Witness ==
    \E c \in 1 .. Len(mlog) :
        LET e == mlog[c]
        IN  /\ e.returned < 0
            /\ e.budget >= e.before.position.time_to_next_location
            /\ Len(e.after.path.request_order) < Len(e.before.path.request_order)
            /\ e.after.position.next_location # e.before.position.next_location

\* C15: time_to_next_location is the time still needed to reach next_location:
\* a call of _move_agent that stops because the vehicle reached its next
\* location with an empty visit order leaves time_to_next_location at 0, so
\* that stepping the vehicle again takes nothing off the budget for the hop
\* already travelled.
C15_HopChargedOnce ==
    \A c \in 1 .. Len(mlog) :
        LET e == mlog[c]
        IN  e.returned >= 0 =>
                /\ is_empty(e.after.path)
                /\ e.after.position.time_to_next_location = 0
                /\ \A further \in Budgets :
                       move_agent(e.after, further).time_remaining = further

\* the number of nodes a call of _move_agent with the given budget pops.  The
\* loop run with a budget is the loop run with a larger budget cut short, so a
\* node is popped when e of the epoch has passed iff e is the least budget
\* with which it is popped.
PoppedWithin(agent, budget) ==
    Len(agent.path.request_order)
    - Len(move_agent(agent, budget).agent.path.request_order)

\* the number of nodes the validator expects to be visited by the given time
DueBy(agent, time) ==
    Cardinality({k \in NodesOf(agent) :
                    agent.path.request_order[k].expected_visit_time <= time})

\* C17: when has_valid_path has accepted a vehicle's path at time T and the
\* vehicle is then moved for one epoch, then at every moment of the epoch the
\* nodes popped so far are the nodes whose expected_visit_time has come, in
\* visit order; no node is popped after its deadline and every node due by
\* T + EPOCH_LENGTH is popped in that epoch.
C17_ValidatorAgreesWithMotion ==
    \A c \in 1 .. Len(mlog) :
        LET e == mlog[c]
            order == e.before.path.request_order
        IN  e.budget = EPOCH_LENGTH =>
                /\ \A k \in NodesOf(e.before) :
                       /\ order[k].expected_visit_time <= StopDeadline(e.before, k)
                       /\ k > 1 => order[k - 1].expected_visit_time
                                       <= order[k].expected_visit_time
                /\ \A elapsed \in 0 .. EPOCH_LENGTH :
                       PoppedWithin(e.before, elapsed)
                           = DueBy(e.before, e.now + elapsed)
                /\ e.after.path.request_order
                       = SubSeq(order, DueBy(e.before, e.now + EPOCH_LENGTH) + 1,
                                Len(order))

\* a vehicle in the middle of a hop whose first node is popped within the
\* epoch, after some driving, and whose second node is due after the epoch
C17_Witness ==
    \E c \in 1 .. Len(mlog) :
        LET e == mlog[c]
            order == e.before.path.request_order
        IN  /\ e.budget = EPOCH_LENGTH
            /\ e.before.position.time_to_next_location > 0
            /\ Len(order) = 2
            /\ Len(e.after.path.request_order) = 1
            /\ order[1].expected_visit_time
                   > e.now + e.before.position.time_to_next_location
            /\ order[2].expected_visit_time > e.now + EPOCH_LENGTH

(***************************************************************************)
(* NYEnvironment.get_request_batch on its own: a generator over the lines  *)
(* of a data file, resumed by next() until it is exhausted.                *)
(***************************************************************************)
\* most epoch headers in a data file
MaxHeaders == 3

\* line 218: int(self.current_time / 3600)
SECONDS_PER_HOUR == 3600

\* the epoch index of the first header of a file; with EPOCH_LENGTH = 60 the
\* epochs 58 and 59 lie in hour 0, the epochs 60 and later in hour 1
FirstEpochs == {58, 59}

\* the windows [start_hour, end_hour) asked for
HourWindows == { <<0, 1>>, <<1, 2>>, <<0, 24>> }

\* the values self.current_time may hold when the generator is created: 0.0
\* from initialise_environment, or the clock of an earlier run
PriorClocks == {0, 3600}

\* zones of ignorezonelist.txt
IgnoredZones == {}

\* a line "Flows:<epoch>-<n>"
EpochLine(e) == [kind |-> "epoch", epoch |-> e, source |-> 0, destination |-> 0, count |-> 0]

\* a line "<source>,<destination>,<count>.0"
RequestLine(source, destination, count) ==
    [kind |-> "request", epoch |-> 0, source |-> source, destination |-> destination,
     count |-> count]

\* a data file, after its first line: h headers of consecutive epochs, the
\* j-th followed by a request line when with_requests[j]
RECURSIVE DataFile(_, _, _)
DataFile(first_epoch, with_requests, j) ==
    IF j > Len(with_requests) THEN <<>>
    ELSE << EpochLine(first_epoch + j - 1) >>
         \o (IF with_requests[j] THEN << RequestLine(0, 2, 1) >> ELSE <<>>)
         \o DataFile(first_epoch, with_requests, j + 1)

\* current_hour before the first assignment of line 218
Unbound == -1

InitBatch ==
    /\ \E h \in 0 .. MaxHeaders, first_epoch \in FirstEpochs, window \in HourWindows :
         \E with_requests \in [1 .. h -> BOOLEAN] :
           gen = [lines |-> DataFile(first_epoch, with_requests, 1),
                  idx |-> 1,
                  start_hour |-> window[1],
                  end_hour |-> window[2],
                  request_list |-> <<>>,
                  is_first_epoch |-> TRUE,
                  current_hour |-> Unbound,
                  yielded |-> <<>>]
    /\ current_time \in PriorClocks
    /\ agents = <<>>
    /\ recent_request_history = <<>>
    /\ pc = "reading"
    /\ epoch = 0
    /\ current_requests = <<>>
    /\ final_actions = <<>>
    /\ agents_to_rebalance = <<>>
    /\ vlog = <<>>
    /\ rb = NoRebalance
    /\ appended = <<>>
    /\ stepped = <<>>
    /\ mlog = <<>>
    /\ scored_actions = NoScores

\* lines 219 and 239: current_hour >= start_hour and current_hour < end_hour
InWindow(current_hour, start_hour, end_hour) ==
    current_hour >= start_hour /\ current_hour < end_hour

\* line 218
HourOf(time) == time \div SECONDS_PER_HOUR

\* lines 232-237: num_requests requests from source to destination, created
\* at the clock's time
RequestsOfLine(line, now, idx) ==
    IF /\ line.source \notin IgnoredZones
       /\ line.destination \notin IgnoredZones
       /\ line.source # line.destination
    THEN [k \in 1 .. line.count |->
             Request(<<idx, k - 1>>, line.source, line.destination, now,
                     now + WaitTolerance, now + TripTolerance)]
    ELSE <<>>

\* what the consumer receives at a yield: the list and the clock it reads
Yield(request_list, now) == [requests |-> request_list, current_time |-> now]

GenUnchanged ==
    UNCHANGED <<agents, recent_request_history, epoch, current_requests, final_actions,
                agents_to_rebalance, vlog, rb, appended, stepped, mlog, scored_actions>>

\* lines 216-217, 225-226: the first header only clears is_first_epoch
ReadFirstEpochLine ==
    /\ pc = "reading"
    /\ gen.idx <= Len(gen.lines)
    /\ gen.lines[gen.idx].kind = "epoch"
    /\ gen.is_first_epoch
    /\ gen' = [gen EXCEPT !.is_first_epoch = FALSE, !.idx = @ + 1]
    /\ UNCHANGED <<current_time, pc>>
    /\ GenUnchanged

\* lines 217-220: a later header whose test of the clock's hour succeeds: the
\* list is yielded and the generator is suspended
ReadEpochLineYield ==
    /\ pc = "reading"
    /\ gen.idx <= Len(gen.lines)
    /\ gen.lines[gen.idx].kind = "epoch"
    /\ ~ gen.is_first_epoch
    /\ InWindow(HourOf(current_time), gen.start_hour, gen.end_hour)
    /\ gen' = [gen EXCEPT !.current_hour = HourOf(current_time),
                          !.yielded = Append(@, Yield(gen.request_list, current_time))]
    /\ pc' = "yielded"
    /\ UNCHANGED current_time
    /\ GenUnchanged

\* lines 222-224: the clock moves to the header's epoch and the list is cleared
ResumeAfterYield ==
    /\ pc = "yielded"
    /\ current_time' = gen.lines[gen.idx].epoch * EPOCH_LENGTH
    /\ gen' = [gen EXCEPT !.request_list = <<>>, !.idx = @ + 1]
    /\ pc' = "reading"
    /\ GenUnchanged

\* lines 217-224: a later header whose test of the clock's hour fails
ReadEpochLineSkip ==
    /\ pc = "reading"
    /\ gen.idx <= Len(gen.lines)
    /\ gen.lines[gen.idx].kind = "epoch"
    /\ ~ gen.is_first_epoch
    /\ ~ InWindow(HourOf(current_time), gen.start_hour, gen.end_hour)
    /\ current_time' = gen.lines[gen.idx].epoch * EPOCH_LENGTH
    /\ gen' = [gen EXCEPT !.current_hour = HourOf(current_time),
                          !.request_list = <<>>, !.idx = @ + 1]
    /\ UNCHANGED pc
    /\ GenUnchanged

\* lines 227-237: a request line
ReadRequestLine ==
    /\ pc = "reading"
    /\ gen.idx <= Len(gen.lines)
    /\ gen.lines[gen.idx].kind = "request"
    /\ gen' = [gen EXCEPT
                  !.request_list = @ \o RequestsOfLine(gen.lines[gen.idx], current_time,
                                                       gen.idx),
                  !.idx = @ + 1]
    /\ UNCHANGED <<current_time, pc>>
    /\ GenUnchanged

\* line 239 when line 218 never ran: current_hour is not bound and the test
\* raises UnboundLocalError
EndOfFileUnbound ==
    /\ pc = "reading"
    /\ gen.idx > Len(gen.lines)
    /\ gen.current_hour = Unbound
    /\ pc' = "UnboundLocalError"
    /\ UNCHANGED <<current_time, gen>>
    /\ GenUnchanged

\* lines 239-240: the last list is yielded
EndOfFileYield ==
    /\ pc = "reading"
    /\ gen.idx > Len(gen.lines)
    /\ gen.current_hour # Unbound
    /\ InWindow(gen.current_hour, gen.start_hour, gen.end_hour)
    /\ gen' = [gen EXCEPT !.yielded = Append(@, Yield(gen.request_list, current_time))]
    /\ pc' = "yielded_last"
    /\ UNCHANGED current_time
    /\ GenUnchanged

\* line 239 failing, or the generator resumed after its last yield: StopIteration
EndOfFileStop ==
    /\ \/ /\ pc = "reading"
          /\ gen.idx > Len(gen.lines)
          /\ gen.current_hour # Unbound
          /\ ~ InWindow(gen.current_hour, gen.start_hour, gen.end_hour)
       \/ pc = "yielded_last"
    /\ pc' = "StopIteration"
    /\ UNCHANGED <<current_time, gen>>
    /\ GenUnchanged

NextBatchLine ==
    \/ ReadFirstEpochLine
    \/ ReadEpochLineYield
    \/ ResumeAfterYield
    \/ ReadEpochLineSkip
    \/ ReadRequestLine
    \/ EndOfFileUnbound
    \/ EndOfFileYield
    \/ EndOfFileStop

SpecBatch == InitBatch /\ [][NextBatchLine]_vars

\* the batches of a file: per header its epoch and the trips asked for under it
RECURSIVE BatchesOfFile(_, _, _)
BatchesOfFile(lines, i, batches) ==
    IF i > Len(lines) THEN batches
    ELSE IF lines[i].kind = "epoch"
         THEN BatchesOfFile(lines, i + 1,
                            Append(batches, [epoch |-> lines[i].epoch, trips |-> <<>>]))
         ELSE BatchesOfFile(lines, i + 1,
                 [batches EXCEPT ![Len(batches)].trips =
                     @ \o [k \in 1 .. lines[i].count |->
                              <<lines[i].source, lines[i].destination>>]])

\* the batches whose own epoch starts within the window, in file order
BatchesDue ==
    LET Due(b) == InWindow((b.epoch * EPOCH_LENGTH) \div SECONDS_PER_HOUR,
                           gen.start_hour, gen.end_hour)
    IN  SelectSeq(BatchesOfFile(gen.lines, 1, <<>>), Due)

\* the generator's frame exists
Generating == pc \in {"reading", "yielded", "yielded_last", "StopIteration",
                      "UnboundLocalError"}

\* C18: the generator ends without an error, having yielded, in file order,
\* exactly the batches whose own epoch start (epoch index times EPOCH_LENGTH)
\* lies in an hour of [start_hour, end_hour), each with the requests of its
\* lines, every request created at that epoch start, which is also the time
\* the clock shows at the yield.
C18_BatchesByOwnEpoch ==
    Generating =>
        /\ pc # "UnboundLocalError"
        /\ Len(gen.yielded) <= Len(BatchesDue)
        /\ pc = "StopIteration" => Len(gen.yielded) = Len(BatchesDue)
        /\ \A k \in 1 .. Len(gen.yielded) :
               k <= Len(BatchesDue) =>
                   LET batch == BatchesDue[k]
                       got == gen.yielded[k]
                   IN  /\ got.current_time = batch.epoch * EPOCH_LENGTH
                       /\ Len(got.requests) = Len(batch.trips)
                       /\ \A r \in 1 .. Len(got.requests) :
                              /\ got.requests[r].pickup = batch.trips[r][1]
                              /\ got.requests[r].dropoff = batch.trips[r][2]
                              /\ got.requests[r].creation_time
                                     = batch.epoch * EPOCH_LENGTH

====
